---- MODULE Spec2Model ----
(***************************************************************************)
(* VoiceGenie-AI: the App component of src/src/App.tsx as a state machine. *)
(*                                                                         *)
(* State is the component's React state, the browser's timer list, the     *)
(* handleSubmit invocations suspended at their await, and the speech       *)
(* platform (utterance queue plus the events it has fired and the event    *)
(* loop has not yet delivered).  Every step is one task of the event loop: *)
(* a UI handler, the continuation of a suspended handleSubmit, a timer     *)
(* callback, a platform step or the delivery of a platform event.          *)
(***************************************************************************)
EXTENDS Integers, Sequences, FiniteSets, TLC

VARIABLES
    input,            \* useState('')      App.tsx:14
    messages,         \* useState([])      App.tsx:15
    isLoading,        \* useState(false)   App.tsx:16
    isSpeaking,       \* useState(false)   App.tsx:17
    speechEnabled,    \* useState(true)    App.tsx:18
    error,            \* useState('')      App.tsx:19
    apiKeySet,        \* import.meta.env.VITE_GROQ_API_KEY is non-empty (build-time)
    hasSpeechSynthesis, \* 'speechSynthesis' in window
    network,          \* what the completion endpoint does with a request
    now,              \* Date.now(), integer milliseconds
    ticks,            \* number of clock advances so far (bounds the run)
    submits,          \* number of handleSubmit invocations so far (bounds the run)
    timers,           \* setTimeout callbacks not yet run, in creation order
    pending,          \* handleSubmit invocations suspended at line 141
    fetchCount,       \* number of fetch() calls issued
    utterances,       \* window.speechSynthesis queue
    notifications,    \* utterance events fired and not yet delivered
    speakCalls,       \* texts handed to window.speechSynthesis.speak, in order
    stopped           \* history: stopSpeaking ran and no reply resolved since

vars == <<input, messages, isLoading, isSpeaking, speechEnabled, error,
          apiKeySet, hasSpeechSynthesis, network, now, ticks, submits, timers,
          pending,
          fetchCount, utterances, notifications, speakCalls, stopped>>

reactState == <<input, messages, isLoading, isSpeaking, speechEnabled, error>>
platform == <<utterances, notifications, speakCalls>>
environment == <<apiKeySet, hasSpeechSynthesis, network>>

----------------------------------------------------------------------------
(* Bounds of the model *)

MaxSubmits == 2
MaxTicks == 2

(* Program constants *)

ValidationClearDelay == 3000
FailureClearDelay == 5000
NarrationDelay == 500

ValidationMsg == "Please enter a question or command"
FailureMsg == "Failed to get response. Please try again."
MissingKeyMsg == "I'm sorry, I cannot connect to the AI service. Please ensure the API key is configured correctly."

\* What the user can type into the form field.
Inputs == {"", "  ", " hi "}

\* The JavaScript value undefined, where a string was expected.
Undefined == "<undefined>"

----------------------------------------------------------------------------
(* Pure helpers *)

RECURSIVE TrimStart(_)
TrimStart(s) ==
    IF Len(s) > 0 /\ Head(s) = " " THEN TrimStart(Tail(s)) ELSE s

RECURSIVE TrimEnd(_)
TrimEnd(s) ==
    IF Len(s) > 0 /\ SubSeq(s, Len(s), Len(s)) = " "
    THEN TrimEnd(SubSeq(s, 1, Len(s) - 1))
    ELSE s

\* String.prototype.trim
Trim(s) == TrimEnd(TrimStart(s))

IsPrefix(s, t) == Len(s) <= Len(t) /\ SubSeq(t, 1, Len(s)) = s

Message(id, type, content, timestamp) ==
    [id |-> id, type |-> type, content |-> content, timestamp |-> timestamp]

----------------------------------------------------------------------------
(* The completion client, App.tsx:64-112 *)

\* What the network can do with a fetch(): the transport fails, or a
\* response arrives with a status and a body.  The endpoint is in one of
\* these conditions for the whole session.
NetOutcomes ==
    { [transport |-> "fails",    ok |-> FALSE, body |-> "none"],
      [transport |-> "responds", ok |-> FALSE, body |-> "error_payload"],
      [transport |-> "responds", ok |-> FALSE, body |-> "not_json"],
      [transport |-> "responds", ok |-> TRUE,  body |-> "not_json"],
      [transport |-> "responds", ok |-> TRUE,  body |-> "no_choices"],
      [transport |-> "responds", ok |-> TRUE,  body |-> "no_content"],
      [transport |-> "responds", ok |-> TRUE,  body |-> "content"] }

\* Without the credential no request is ever made.
Unreached == [transport |-> "unreached", ok |-> FALSE, body |-> "none"]

ReplyText == "A black hole is a region of spacetime."
StatusLine == "401 Unauthorized"
UpstreamMessage == "Invalid API Key"

Threw(message) == [threw |-> TRUE, message |-> message, value |-> Undefined]
Returned(value) == [threw |-> FALSE, message |-> "", value |-> value]

\* response.json(): the parsed body, or a SyntaxError.
ResponseJson(net) ==
    IF net.body = "not_json"
    THEN Threw("Unexpected token < in JSON at position 0")
    ELSE Returned(net.body)

\* data.choices[0].message.content on the parsed body (line 104).
ExtractContent(body) ==
    CASE body = "content"    -> Returned(ReplyText)
      [] body = "no_content" -> Returned(Undefined)
      [] OTHER -> Threw("Cannot read properties of undefined (reading '0')")

\* Lines 93-98: the error thrown for a non-success status.
UpstreamError(net) ==
    LET errorData == ResponseJson(net)
    IN  IF errorData.threw
        THEN errorData
        ELSE Threw("Groq API error: " \o StatusLine \o " - " \o UpstreamMessage)

\* The body of the try block, lines 75-104.
TryBody(net) ==
    IF net.transport = "fails"
    THEN Threw("Failed to fetch")
    ELSE IF ~net.ok
         THEN UpstreamError(net)
         ELSE LET data == ResponseJson(net)
              IN  IF data.threw THEN data ELSE ExtractContent(data.value)

Apology(message) ==
    "I apologize, but I encountered an issue fetching a response. Please try again. ("
        \o message \o ")"

Resolved(value) == [settled |-> "resolved", value |-> value]
Rejected(reason) == [settled |-> "rejected", value |-> reason]

\* Mutation of CatchBlock: the error is logged and thrown again.
CatchBlockRethrows(err) == Rejected(err.message)

\* The catch block, lines 106-111.
CatchBlock(err) == Resolved(Apology(err.message))

\* Mutation of generateAIResponse: the request is made outside any try
\* block, so what it throws rejects the promise.
generateAIResponseNoTry(keySet, net) ==
    IF ~keySet
    THEN Resolved(MissingKeyMsg)
    ELSE LET t == TryBody(net)
         IN  IF t.threw THEN Rejected(t.message) ELSE Resolved(t.value)

\* generateAIResponse: how its promise settles, given the credential and
\* what the network does.
generateAIResponse(keySet, net) ==
    IF ~keySet
    THEN Resolved(MissingKeyMsg)
    ELSE LET t == TryBody(net)
         IN  IF t.threw THEN CatchBlock(t) ELSE Resolved(t.value)

\* Mutation of CallsFetch: the request is sent before the credential is
\* looked at.
CallsFetchUnconditionally(keySet) == TRUE

\* Whether generateAIResponse reaches fetch() (line 77).
CallsFetch(keySet) == keySet

----------------------------------------------------------------------------
(* The speech platform, window.speechSynthesis *)

\* new SpeechSynthesisUtterance(text), lines 43-51.  The utterances of a
\* session are told apart by their number in the order of the speak calls.
Utterance(text) ==
    [text |-> text, speaking |-> FALSE, id |-> Len(speakCalls) + 1]

\* An event the platform fires on an utterance.
Notification(kind, utt) == [kind |-> kind, text |-> utt.text, id |-> utt.id]

\* speechSynthesis.cancel(): every utterance leaves the queue, and each one
\* is told so by an error event (interrupted or canceled).
CancelledEvents(utts) ==
    [i \in 1..Len(utts) |-> Notification("error", utts[i])]

\* An async function that returns without suspending settles its promise at
\* once; the continuation awaiting it is a microtask, and microtasks run
\* before the event loop takes its next task.
MicrotasksDrained == \A i \in 1..Len(pending) : ~pending[i].immediate

\* The platform begins to speak the utterance at the head of its queue.
PlatformStart ==
    /\ MicrotasksDrained
    /\ Len(utterances) > 0
    /\ ~utterances[1].speaking
    /\ utterances' = [utterances EXCEPT ![1].speaking = TRUE]
    /\ notifications' = Append(notifications, Notification("start", utterances[1]))
    /\ UNCHANGED <<stopped, reactState, environment, now, ticks, submits, timers,
                   pending, fetchCount, speakCalls>>

\* The utterance being spoken finishes, normally or with a synthesis error.
PlatformFinish(kind) ==
    /\ MicrotasksDrained
    /\ Len(utterances) > 0
    /\ utterances[1].speaking
    /\ utterances' = Tail(utterances)
    /\ notifications' = Append(notifications, Notification(kind, utterances[1]))
    /\ UNCHANGED <<stopped, reactState, environment, now, ticks, submits, timers,
                   pending, fetchCount, speakCalls>>

\* The event loop delivers an undelivered utterance event to its handler:
\* onstart, onend, onerror (lines 49-51).  The events of one utterance arrive
\* in the order they were fired; the platform fires the events of a cancelled
\* utterance asynchronously, and nothing orders them against the events of
\* the utterance that replaced it.
DeliverNotification(i) ==
    /\ MicrotasksDrained
    /\ i \in 1..Len(notifications)
    /\ \A j \in 1..(i - 1) : notifications[j].id # notifications[i].id
    /\ isSpeaking' = (notifications[i].kind = "start")
    /\ notifications' = SubSeq(notifications, 1, i - 1)
                            \o SubSeq(notifications, i + 1, Len(notifications))
    /\ UNCHANGED <<stopped, input, messages, isLoading, speechEnabled, error,
                   environment, now, ticks, submits, timers, pending,
                   fetchCount, utterances, speakCalls>>

----------------------------------------------------------------------------
(* Timers and the clock *)

Timer(kind, due, text, enabled) ==
    [kind |-> kind, due |-> due, text |-> text, speechEnabled |-> enabled]

ClearErrorTimer(due) == Timer("clearError", due, "", FALSE)

Dues == {timers[i].due : i \in 1..Len(timers)}

MinDue == CHOOSE d \in Dues : \A e \in Dues : d <= e

\* The timer the event loop runs next: the earliest due, oldest first.
NextTimer == CHOOSE i \in 1..Len(timers) :
                /\ timers[i].due = MinDue
                /\ \A j \in 1..(i - 1) : timers[j].due # MinDue

RemoveAt(seq, i) == SubSeq(seq, 1, i - 1) \o SubSeq(seq, i + 1, Len(seq))

\* Time passes.  A timer that is due runs before the clock moves on; the
\* clock moves by one millisecond or straight to the next timer.
Advance ==
    /\ MicrotasksDrained
    /\ ticks < MaxTicks
    /\ \A d \in Dues : d > now
    /\ \E t \in {now + 1} \cup Dues :
          /\ \A d \in Dues : t <= d
          /\ now' = t
    /\ ticks' = ticks + 1
    /\ UNCHANGED <<stopped, reactState, environment, submits, timers, pending,
                   fetchCount, platform>>

\* The clock reaches the next pending timer.  Unlike Advance this step is
\* not counted against MaxTicks: however long the run, a pending timer
\* comes due.
AdvanceToTimer ==
    /\ MicrotasksDrained
    /\ Dues # {}
    /\ MinDue > now
    /\ now' = MinDue
    /\ UNCHANGED <<stopped, reactState, environment, ticks, submits, timers, pending,
                   fetchCount, platform>>

----------------------------------------------------------------------------
(* The component's handlers *)

\* Mutation of speakText: line 40, the cancel, is missing.
speakTextNoCancel(text, enabled) ==
    IF ~enabled \/ ~hasSpeechSynthesis
    THEN UNCHANGED platform
    ELSE /\ UNCHANGED notifications
         /\ utterances' = Append(utterances, Utterance(text))
         /\ speakCalls' = Append(speakCalls, text)

\* speakText, lines 35-55, as called from a closure that captured `enabled`
\* as its speechEnabled.
speakText(text, enabled) ==
    IF ~enabled \/ ~hasSpeechSynthesis
    THEN UNCHANGED platform
    ELSE /\ notifications' = notifications \o CancelledEvents(utterances)
         /\ utterances' = <<Utterance(text)>>
         /\ speakCalls' = Append(speakCalls, text)

\* Mutation of stopSpeaking: line 60 is missing, the state is left to the
\* utterance's own event.
stopSpeakingAwaitsPlatform ==
    /\ MicrotasksDrained
    /\ IF hasSpeechSynthesis
       THEN /\ notifications' = notifications \o CancelledEvents(utterances)
            /\ utterances' = <<>>
       ELSE UNCHANGED <<notifications, utterances>>
    /\ stopped' = TRUE
    /\ UNCHANGED <<reactState, environment, now, ticks, submits, timers,
                   pending, fetchCount, speakCalls>>

\* stopSpeaking, lines 58-61.  Without the platform object the call on
\* line 59 throws before line 60 is reached.
stopSpeaking ==
    /\ MicrotasksDrained
    /\ IF hasSpeechSynthesis
       THEN /\ notifications' = notifications \o CancelledEvents(utterances)
            /\ utterances' = <<>>
            /\ isSpeaking' = FALSE
       ELSE UNCHANGED <<notifications, utterances, isSpeaking>>
    /\ stopped' = TRUE
    /\ UNCHANGED <<input, messages, isLoading, speechEnabled, error,
                   environment, now, ticks, submits, timers, pending,
                   fetchCount, speakCalls>>

\* The speech toggle button, line 306.
toggleSpeech ==
    /\ MicrotasksDrained
    /\ speechEnabled' = ~speechEnabled
    /\ UNCHANGED <<stopped, input, messages, isLoading, isSpeaking, error,
                   environment, now, ticks, submits, timers, pending,
                   fetchCount, platform>>

\* The form field's onChange, line 284.
onChange(s) ==
    /\ MicrotasksDrained
    /\ s # input
    /\ input' = s
    /\ UNCHANGED <<stopped, messages, isLoading, isSpeaking, speechEnabled, error,
                   environment, now, ticks, submits, timers, pending,
                   fetchCount, platform>>

\* A handleSubmit invocation suspended at its await: what its closure
\* captured (input, speechEnabled), and the conversation length it found.
Continuation(userInput, enabled, immediate, lenBefore) ==
    [userInput |-> userInput, speechEnabled |-> enabled,
     immediate |-> immediate, lenBefore |-> lenBefore]

\* Mutation of SubmitEmpty: the return on line 122 is missing, so the empty
\* input is submitted like any other.
SubmitEmptyFallsThrough ==
    /\ error' = ""
    /\ timers' = Append(timers, ClearErrorTimer(now + ValidationClearDelay))
    /\ messages' = Append(messages,
                          Message(ToString(now), "user", Trim(input), now))
    /\ input' = ""
    /\ isLoading' = TRUE
    /\ pending' = Append(pending,
                         Continuation(Trim(input), speechEnabled,
                                      ~apiKeySet, Len(messages)))
    /\ fetchCount' = fetchCount + (IF apiKeySet THEN 1 ELSE 0)

\* Mutation of SubmitEmpty: the setTimeout of line 121 is missing.
SubmitEmptyNoTimer ==
    /\ error' = ValidationMsg
    /\ UNCHANGED <<timers, input, messages, isLoading, pending, fetchCount>>

\* Lines 119-123: the validation branch.
SubmitEmpty ==
    /\ error' = ValidationMsg
    /\ timers' = Append(timers, ClearErrorTimer(now + ValidationClearDelay))
    /\ UNCHANGED <<input, messages, isLoading, pending, fetchCount>>

\* Mutation of SubmitValid: the user message is appended only once the
\* reply is known, that is, not by the submission.
SubmitValidNoAppend ==
    /\ UNCHANGED messages
    /\ input' = ""
    /\ isLoading' = TRUE
    /\ error' = ""
    /\ pending' = Append(pending,
                         Continuation(Trim(input), speechEnabled,
                                      ~apiKeySet, Len(messages)))
    /\ fetchCount' = fetchCount + (IF apiKeySet THEN 1 ELSE 0)
    /\ UNCHANGED timers

\* Mutation of SubmitValid: setIsLoading(true) on line 136 is missing.
SubmitValidNoLoading ==
    /\ messages' = Append(messages,
                          Message(ToString(now), "user", Trim(input), now))
    /\ input' = ""
    /\ UNCHANGED isLoading
    /\ error' = ""
    /\ pending' = Append(pending,
                         Continuation(Trim(input), speechEnabled,
                                      ~apiKeySet, Len(messages)))
    /\ fetchCount' = fetchCount + (IF apiKeySet THEN 1 ELSE 0)
    /\ UNCHANGED timers

\* Lines 125-141: the user message is appended, the draft and the error are
\* cleared, loading begins and generateAIResponse is called.
SubmitValid ==
    /\ messages' = Append(messages,
                          Message(ToString(now), "user", Trim(input), now))
    /\ input' = ""
    /\ isLoading' = TRUE
    /\ error' = ""
    /\ pending' = Append(pending,
                         Continuation(Trim(input), speechEnabled,
                                      ~CallsFetch(apiKeySet), Len(messages)))
    /\ fetchCount' = fetchCount + (IF CallsFetch(apiKeySet) THEN 1 ELSE 0)
    /\ UNCHANGED timers

\* handleSubmit up to its await, lines 115-141.
handleSubmit ==
    /\ MicrotasksDrained
    /\ submits < MaxSubmits
    /\ submits' = submits + 1
    /\ IF Trim(input) = "" THEN SubmitEmpty ELSE SubmitValid
    /\ UNCHANGED <<stopped, isSpeaking, speechEnabled, environment, now, ticks, platform>>

\* Mutation of ResumeResolved: the reply is put in front of the
\* conversation instead of at its end.
ResumeResolvedPrepends(p, aiResponse) ==
    /\ messages' = <<Message(ToString(now + 1), "ai", aiResponse, now)>> \o messages
    /\ timers' = IF p.speechEnabled
                 THEN Append(timers, Timer("speak", now + NarrationDelay,
                                           aiResponse, p.speechEnabled))
                 ELSE timers
    /\ UNCHANGED error

\* Mutation of ResumeResolved: setMessages([...messages, aiMessage]) with the
\* messages of the closure, the conversation as the submission found it,
\* instead of an update of prev.
ResumeResolvedStaleMessages(p, aiResponse) ==
    /\ messages' = Append(SubSeq(messages, 1, p.lenBefore),
                          Message(ToString(now + 1), "ai", aiResponse, now))
    /\ timers' = IF p.speechEnabled
                 THEN Append(timers, Timer("speak", now + NarrationDelay,
                                           aiResponse, p.speechEnabled))
                 ELSE timers
    /\ UNCHANGED error

\* Mutation of ResumeResolved: the narration is scheduled but the
\* setMessages of line 152 is missing.
ResumeResolvedNoAppend(p, aiResponse) ==
    /\ timers' = IF p.speechEnabled
                 THEN Append(timers, Timer("speak", now + NarrationDelay,
                                           aiResponse, p.speechEnabled))
                 ELSE timers
    /\ UNCHANGED <<messages, error>>

\* Lines 143-157: the reply is appended and, if the closure's speechEnabled
\* is set, its narration is scheduled.
ResumeResolved(p, aiResponse) ==
    /\ messages' = Append(messages,
                          Message(ToString(now + 1), "ai", aiResponse, now))
    /\ timers' = IF p.speechEnabled
                 THEN Append(timers, Timer("speak", now + NarrationDelay,
                                           aiResponse, p.speechEnabled))
                 ELSE timers
    /\ UNCHANGED error

\* Lines 158-162: the catch block of handleSubmit.
ResumeRejected ==
    /\ error' = FailureMsg
    /\ timers' = Append(timers, ClearErrorTimer(now + FailureClearDelay))
    /\ UNCHANGED messages

\* Mutation of handleSubmitResume: setIsLoading(false) sits in the catch
\* block instead of a finally block.
handleSubmitResumeNoFinally(i, net) ==
    /\ i \in 1..Len(pending)
    /\ MicrotasksDrained \/ pending[i].immediate
    /\ LET settlement == generateAIResponse(apiKeySet, net)
       IN  IF settlement.settled = "resolved"
           THEN ResumeResolved(pending[i], settlement.value) /\ UNCHANGED isLoading
           ELSE ResumeRejected /\ isLoading' = FALSE
    /\ pending' = RemoveAt(pending, i)
    /\ stopped' = FALSE
    /\ UNCHANGED <<input, isSpeaking, speechEnabled, environment, now, ticks,
                   submits, fetchCount, platform>>

\* handleSubmit from its await on, lines 141-165: the completion request of
\* the i-th suspended invocation settles, the network having done `net`.
handleSubmitResume(i, net) ==
    /\ i \in 1..Len(pending)
    /\ MicrotasksDrained \/ pending[i].immediate
    /\ LET settlement == generateAIResponse(apiKeySet, net)
       IN  IF settlement.settled = "resolved"
           THEN ResumeResolved(pending[i], settlement.value)
           ELSE ResumeRejected
    /\ isLoading' = FALSE
    /\ pending' = RemoveAt(pending, i)
    /\ stopped' = FALSE
    /\ UNCHANGED <<input, isSpeaking, speechEnabled, environment, now, ticks,
                   submits, fetchCount, platform>>

\* A timer callback runs: () => setError('') of lines 121 and 162, or
\* () => speakText(aiResponse) of line 156.
RunTimer ==
    /\ MicrotasksDrained
    /\ Len(timers) > 0
    /\ MinDue <= now
    /\ LET t == timers[NextTimer]
       IN  IF t.kind = "clearError"
           THEN /\ error' = ""
                /\ UNCHANGED platform
           ELSE /\ speakText(t.text, t.speechEnabled)
                /\ UNCHANGED error
    /\ timers' = RemoveAt(timers, NextTimer)
    /\ UNCHANGED <<stopped, input, messages, isLoading, isSpeaking, speechEnabled,
                   environment, now, ticks, submits, pending, fetchCount>>

----------------------------------------------------------------------------
(* Specifications *)

Init ==
    /\ input = ""
    /\ messages = <<>>
    /\ isLoading = FALSE
    /\ isSpeaking = FALSE
    /\ speechEnabled = TRUE
    /\ error = ""
    /\ apiKeySet \in BOOLEAN
    /\ hasSpeechSynthesis \in BOOLEAN
    /\ network \in IF apiKeySet THEN NetOutcomes ELSE {Unreached}
    /\ now = 0
    /\ ticks = 0
    /\ submits = 0
    /\ timers = <<>>
    /\ pending = <<>>
    /\ fetchCount = 0
    /\ utterances = <<>>
    /\ notifications = <<>>
    /\ speakCalls = <<>>
    /\ stopped = FALSE

\* The tasks no control of the page gates.
Background ==
    \/ \E i \in 1..Len(pending) : handleSubmitResume(i, network)
    \/ toggleSpeech
    \/ RunTimer
    \/ Advance
    \/ PlatformStart
    \/ \E kind \in {"end", "error"} : PlatformFinish(kind)
    \/ \E i \in 1..Len(notifications) : DeliverNotification(i)

\* The page as rendered: the form field and the submit control are disabled
\* while isLoading (lines 287, 293), the stop button is rendered only while
\* isSpeaking (line 318).  The button is also disabled for a blank draft;
\* handleSubmit checks the draft itself (line 119) and the form's submit event
\* is taken to arrive with any draft.
Next ==
    \/ \E s \in Inputs : ~isLoading /\ onChange(s)
    \/ ~isLoading /\ handleSubmit
    \/ isSpeaking /\ stopSpeaking
    \/ Background

Spec == Init /\ [][Next]_vars

\* The handlers invoked directly, whatever the page has disabled or hidden.
NextBypass ==
    \/ \E s \in Inputs : onChange(s)
    \/ handleSubmit
    \/ stopSpeaking
    \/ Background

SpecBypass == Init /\ [][NextBypass]_vars

\* Every completion request is answered or fails in the end.
Settle == \E i \in 1..Len(pending) : handleSubmitResume(i, network)

FairSpec == Spec /\ WF_vars(Settle)

\* The page with a clock that always reaches the next timer, the event loop
\* running every timer that is due and every request settling.
NextTimed ==
    \/ Next
    \/ AdvanceToTimer

TimedFairSpec ==
    /\ Init
    /\ [][NextTimed]_vars
    /\ WF_vars(Settle)
    /\ WF_vars(AdvanceToTimer)
    /\ WF_vars(RunTimer)

----------------------------------------------------------------------------
(* Properties *)

Last(seq) == seq[Len(seq)]

\* Steps, recognised by what they change.
SubmissionStep == submits' # submits
ResolutionStep == Len(pending') < Len(pending)

\* C1, while a request is outstanding: its user message, holding the trimmed
\* input, is already the last message of the conversation.
UserMessageAppendedFirst ==
    \A i \in 1..Len(pending) :
        /\ Len(messages) = pending[i].lenBefore + 1
        /\ Last(messages).type = "user"
        /\ Last(messages).content = pending[i].userInput

\* C1, the submission: exactly one user message, the trimmed input.
ValidSubmissionAppendsUser ==
    (SubmissionStep /\ Trim(input) # "") =>
        /\ Len(messages') = Len(messages) + 1
        /\ Last(messages').type = "user"
        /\ Last(messages').content = Trim(input)
        /\ Len(pending') = Len(pending) + 1

\* C1, the resolution: exactly one ai message, and the conversation is two
\* longer than the submission found it.
ResolutionAppendsAi ==
    ResolutionStep =>
        /\ Len(messages') = Len(messages) + 1
        /\ Last(messages').type = "ai"
        /\ Len(messages') = pending[1].lenBefore + 2

\* C1: every submission of an input that is non-empty after trimming appends
\* exactly one user message (the trimmed input) before its completion request
\* resolves and exactly one ai message when it resolves; after the round trip
\* the conversation is exactly two longer than before the submission.
C1_RoundTripGrowsByTwo ==
    /\ []UserMessageAppendedFirst
    /\ [][ValidSubmissionAppendsUser /\ ResolutionAppendsAi]_vars

\* Two round trips have completed.
C1_Witness ==
    /\ Len(messages) = 4
    /\ pending = <<>>
    /\ messages[1].type = "user" /\ messages[2].type = "ai"
    /\ messages[3].type = "user" /\ messages[4].type = "ai"

\* C2: submitting an input that is empty after trimming leaves the
\* conversation unchanged, issues no completion request and leaves
\* isLoading false; it changes only the error, which becomes the validation
\* message, and schedules the timer that clears it.
C2_EmptySubmissionOnlySetsError ==
    [][(SubmissionStep /\ Trim(input) = "") =>
          /\ messages' = messages
          /\ pending' = pending
          /\ fetchCount' = fetchCount
          /\ ~isLoading /\ ~isLoading'
          /\ error' = ValidationMsg
          /\ timers' = Append(timers, ClearErrorTimer(now + ValidationClearDelay))
          /\ UNCHANGED <<input, isSpeaking, speechEnabled, platform>>]_vars

\* A whitespace-only draft was submitted after a round trip.
C2_Witness ==
    /\ input = "  "
    /\ error = ValidationMsg
    /\ Len(messages) = 2
    /\ submits = 2

\* C7: the conversation is append-only: over every step the conversation
\* before it is a prefix of the conversation after it.
C7_ConversationAppendOnly ==
    [][IsPrefix(messages, messages')]_vars

\* A conversation that has grown to two round trips.
C7_Witness ==
    /\ Len(messages) = 4
    /\ ~isLoading
    /\ messages[1].id # messages[3].id

AiMessages == {i \in 1..Len(messages) : messages[i].type = "ai"}

\* C3: the completion client never rejects: whatever the credential and the
\* network do, its promise resolves with a string, and that string is the
\* content of the ai message appended for the submission.
C3_NeverRejectsAlwaysString ==
    /\ error # FailureMsg
    /\ \A i \in AiMessages : messages[i].content # Undefined

\* C5: without the credential a valid submission issues no network call, and
\* the ai message appended for it is the fixed apology string verbatim; the
\* failure is not shown as the error banner.
C5_MissingCredentialSoftFailure ==
    ~apiKeySet =>
        /\ fetchCount = 0
        /\ error # FailureMsg
        /\ \A i \in AiMessages : messages[i].content = MissingKeyMsg
        /\ \A i \in 1..Len(pending) : pending[i].immediate

\* Without the credential, a round trip has completed.
C5_Witness ==
    /\ ~apiKeySet
    /\ Len(messages) = 2
    /\ messages[2].type = "ai"
    /\ messages[2].content = MissingKeyMsg
    /\ ~isLoading

NonSuccessStatus == apiKeySet /\ network.transport = "responds" /\ ~network.ok

\* C9 as claimed: when the endpoint answers with a non-success status the
\* submission handler observes a rejection, not a reply string, so no ai
\* message is appended.
C9_NonSuccessStatusRejects ==
    NonSuccessStatus => AiMessages = {}

\* What the error thrown on lines 93-98 says: the status with the upstream
\* payload or, when the error body is not JSON, the parser's complaint.
DescriptiveError ==
    IF network.body = "error_payload"
    THEN "Groq API error: 401 Unauthorized - Invalid API Key"
    ELSE "Unexpected token < in JSON at position 0"

\* C9 amended: when the endpoint answers with a non-success status the error
\* built from it is caught inside the completion client, whose promise
\* resolves with the apology string embedding that error's message; the
\* handler appends it as an ai message and never shows the failure banner.
C9_NonSuccessStatusBecomesReply ==
    NonSuccessStatus =>
        /\ error # FailureMsg
        /\ Len(messages) = 2 * Cardinality(AiMessages) + Len(pending)
        /\ \A i \in AiMessages :
               messages[i].content =
                   "I apologize, but I encountered an issue fetching a response. Please try again. ("
                       \o DescriptiveError \o ")"

\* The endpoint refused a request with an error payload and the round trip
\* has completed.
C9_Witness ==
    /\ NonSuccessStatus
    /\ network.body = "error_payload"
    /\ fetchCount = 1
    /\ pending = <<>>
    /\ Len(messages) = 2
    /\ messages[2].type = "ai"

\* C4 as claimed: whatever toggles were made before a reply resolves, its
\* narration is scheduled, for the fixed delay later, exactly if speech is
\* enabled when it resolves.
C4_SpeechSettingAtResolutionDecides ==
    [][ResolutionStep =>
          (speechEnabled <=>
              /\ Len(timers') = Len(timers) + 1
              /\ Last(timers').kind = "speak"
              /\ Last(timers').due = now + NarrationDelay)]_vars

\* C6: stopSpeaking, in any state, empties the platform's queue and sets
\* isSpeaking to false in the same step, and changes nothing else of the
\* session.
C6_StopSilencesAtOnce ==
    [][stopSpeaking =>
          /\ utterances' = <<>>
          /\ isSpeaking' = FALSE
          /\ UNCHANGED <<input, messages, isLoading, speechEnabled, error,
                         timers, pending, fetchCount>>]_vars

\* Narration was stopped while it was speaking, and the cancelled
\* utterance's own event has not been delivered yet.
C6_Witness ==
    /\ ~isSpeaking
    /\ utterances = <<>>
    /\ Len(speakCalls) = 1
    /\ Len(notifications) = 1
    /\ notifications[1].kind = "error"

\* C8: every submission that enters Awaiting returns to Idle, given that the
\* completion request settles in the end.
C8_AwaitingLeadsToIdle == isLoading ~> ~isLoading

\* The transport failed, and the session is idle again with the apology as
\* the reply.
C8_Witness ==
    /\ apiKeySet
    /\ network.transport = "fails"
    /\ ~isLoading
    /\ pending = <<>>
    /\ Len(messages) = 2

\* C10: the platform never holds more than one utterance, and every
\* speakText that is not a no-op leaves exactly the new utterance in the
\* queue, not yet started.
C10_AtMostOneUtterance ==
    /\ [](Len(utterances) <= 1)
    /\ [][speakCalls' # speakCalls =>
             utterances' = <<Utterance(Last(speakCalls'))>>]_vars

\* A second reply was spoken while the first utterance was still in the
\* queue: the first was cancelled, the second waits to start.
C10_Witness ==
    /\ Len(speakCalls) = 2
    /\ Len(utterances) = 1
    /\ ~utterances[1].speaking
    /\ Len(notifications) > 0
    /\ Last(notifications).kind = "error"
    /\ isSpeaking

ClearTimers == {i \in 1..Len(timers) : timers[i].kind = "clearError"}

\* When the timer of the most recent error is due (timers are kept in the
\* order of their creation).
LastClearDue ==
    timers[CHOOSE i \in ClearTimers : \A j \in ClearTimers : j <= i].due

\* C11: after an empty submission at time t the error is the validation
\* message until t + 3000 and is cleared then; before t + 3000 nothing but a
\* valid submission clears it, whatever timers earlier empty submissions
\* have left pending.
C11_ValidationErrorLastsItsDelay ==
    /\ [](error = ValidationMsg => (ClearTimers # {} /\ now <= LastClearDue))
    /\ [][(error = ValidationMsg /\ error' # ValidationMsg) =>
             \/ SubmissionStep /\ Trim(input) # ""
             \/ now = LastClearDue]_vars

\* C12: with submissions issued through the page, which disables the form
\* while isLoading, at most one completion request is outstanding, and
\* isLoading is true exactly when one is.
C12_OneRequestExactlyWhileLoading ==
    /\ Len(pending) <= 1
    /\ isLoading <=> (Len(pending) = 1)

\* The second request of a session is outstanding.
C12_Witness ==
    /\ isLoading
    /\ Len(pending) = 1
    /\ Len(messages) = 3
    /\ fetchCount = 2

ActivelySpeaking == Len(utterances) > 0 /\ utterances[1].speaking

\* C13: once every event the platform has fired has been delivered,
\* isSpeaking is true exactly if an utterance is being spoken; also when
\* speakText replaced an utterance in progress and the cancelled utterance's
\* event is delivered after the start event of the new one.
C13_SpeakingTracksPlatform ==
    notifications = <<>> => (isSpeaking <=> ActivelySpeaking)

\* C14: the ids of the messages of the conversation are pairwise different,
\* whatever the timing of submissions and resolutions on the millisecond
\* clock.
C14_MessageIdsUnique ==
    \A i, j \in 1..Len(messages) : i # j => messages[i].id # messages[j].id

UserMessages == {i \in 1..Len(messages) : messages[i].type = "user"}

\* C15, in every state: each outstanding request has its user message in
\* the conversation where its submission put it, the requests are kept in
\* submission order, and every user message has its reply or its request.
SubmissionsKeptInOrder ==
    /\ \A i \in 1..Len(pending) :
          /\ pending[i].lenBefore < Len(messages)
          /\ messages[pending[i].lenBefore + 1].type = "user"
          /\ messages[pending[i].lenBefore + 1].content = pending[i].userInput
    /\ \A i, j \in 1..Len(pending) :
          i < j => pending[i].lenBefore < pending[j].lenBefore
    /\ Cardinality(UserMessages) = Cardinality(AiMessages) + Len(pending)

\* C15, the steps: a submission made while a request is outstanding appends
\* its user message at once, and every resolution appends exactly one ai
\* message at the end, whichever request it belongs to.
OverlappingStepsAppend ==
    /\ (SubmissionStep /\ Trim(input) # "" /\ Len(pending) > 0) =>
          /\ Len(messages') = Len(messages) + 1
          /\ IsPrefix(messages, messages')
          /\ Last(messages').type = "user"
          /\ Last(messages').content = Trim(input)
          /\ pending' = Append(pending, Last(pending'))
    /\ ResolutionStep =>
          /\ Len(pending') = Len(pending) - 1
          /\ Len(messages') = Len(messages) + 1
          /\ IsPrefix(messages, messages')
          /\ Last(messages').type = "ai"

\* C15: when a second submission is made while the first request is
\* outstanding, both user messages are appended in submission order at
\* submit time and each resolution appends one ai message, so the replies
\* stand in resolution order; no reply is lost or duplicated.
C15_OverlappingRepliesInResolutionOrder ==
    /\ []SubmissionsKeptInOrder
    /\ [][OverlappingStepsAppend]_vars

\* Two overlapping submissions; the request of the second has resolved and
\* its reply stands in the conversation, the request of the first is still
\* outstanding.
C15_Witness ==
    /\ Len(pending) = 1
    /\ pending[1].lenBefore = 0
    /\ Len(messages) = 3
    /\ messages[1].type = "user"
    /\ messages[2].type = "user"
    /\ messages[3].type = "ai"

SpeakTimers == {i \in 1..Len(timers) : timers[i].kind = "speak"}

\* C16: every reply that resolves while speech is enabled is spoken exactly
\* once, with exactly its text, and only after its ai message was appended:
\* the resolution step schedules the one speakText call for the fixed delay
\* later and speaks nothing itself, and whatever is scheduled or was spoken
\* is the text of an ai message of the conversation.
C16_EnabledReplySpokenOnceAfterAppend ==
    /\ [](/\ \A i \in SpeakTimers :
                \E j \in AiMessages : messages[j].content = timers[i].text
          /\ \A i \in 1..Len(speakCalls) :
                \E j \in AiMessages : messages[j].content = speakCalls[i]
          /\ Len(speakCalls) + Cardinality(SpeakTimers) <= Cardinality(AiMessages))
    /\ [][(ResolutionStep /\ speechEnabled) =>
             /\ Len(timers') = Len(timers) + 1
             /\ Last(timers').kind = "speak"
             /\ Last(timers').text = Last(messages').content
             /\ Last(timers').due = now + NarrationDelay
             /\ UNCHANGED <<speakCalls, utterances>>]_vars

\* C17: every transient error is cleared in the end, timers firing fairly,
\* however empty submissions, valid submissions and timers interleave.
C17_ErrorEventuallyCleared == (error # "") ~> (error = "")

\* An empty submission was the only one so far, and its timer has run.
C17_Witness ==
    /\ error = ""
    /\ submits = 1
    /\ messages = <<>>
    /\ timers = <<>>
    /\ now >= ValidationClearDelay

\* C18: the hard-failure banner is unreachable, no state shows the message
\* of handleSubmit's catch block, and every valid submission ends with an
\* ai message appended: each request that settles appends one, and every
\* outstanding request settles.
C18_FailureBannerUnreachable ==
    /\ [](error # FailureMsg)
    /\ [][ResolutionStep =>
             /\ messages' = Append(messages, Last(messages'))
             /\ Last(messages').type = "ai"]_vars
    /\ isLoading ~> (~isLoading /\ messages # <<>> /\ Last(messages).type = "ai")

\* The endpoint answered 200 with a body that is not JSON, twice, and both
\* submissions ended with an ai message and no banner.
C18_Witness ==
    /\ apiKeySet
    /\ network.ok
    /\ network.body = "not_json"
    /\ fetchCount = 2
    /\ pending = <<>>
    /\ Len(messages) = 4
    /\ messages[4].type = "ai"
    /\ error = ""

\* C19: with submissions made only while isLoading is false, the
\* conversation alternates user, ai, user, ai, ... from a user message on;
\* while idle its length is even (it is empty or ends with an ai message),
\* while awaiting a reply its length is odd and it ends with a user message.
C19_StrictAlternation ==
    /\ \A i \in 1..Len(messages) :
          messages[i].type = IF i % 2 = 1 THEN "user" ELSE "ai"
    /\ ~isLoading => Len(messages) % 2 = 0
    /\ isLoading => Len(messages) % 2 = 1

\* The second question has been asked and its reply is awaited.
C19_Witness ==
    /\ isLoading
    /\ submits = 2
    /\ Len(messages) = 3
    /\ messages[2].type = "ai"
    /\ messages[3].type = "user"

\* C20: after stopSpeaking the session stays silent, isSpeaking false and
\* no utterance started, until a reply resolves after that stop; a
\* narration scheduled by an earlier reply does not start after the stop.
C20_SilentAfterStop == stopped => (~isSpeaking /\ ~ActivelySpeaking)

====
